---- MODULE Spec2Model ----
(***************************************************************************)
(* The query orchestration pipeline of the Agentic RAG + Weather assistant *)
(* (nodes.py, graph.py) and the /query and /batch-query endpoints that run *)
(* it (main.py).                                                           *)
(*                                                                         *)
(* A Python str is a sequence of text fragments; "" is the empty sequence. *)
(* The classifier output is a sequence of one-character fragments so that  *)
(* strip() and lower() are computed.  A Python dict is a function from its *)
(* keys; {} is the function with the empty domain.                         *)
(***************************************************************************)
EXTENDS Integers, Sequences, FiniteSets, TLC

VARIABLES
    request,    \* the question of the QueryRequest
    state,      \* the GraphState of the run
    pc,         \* the node the graph runs next, "END" after the last one
    raised,     \* the exception that ended graph_app.invoke, if any
    executed,   \* the nodes that have run, in order
    calls,      \* the leaf-capability calls made so far, in order
    leaf,       \* what each leaf capability called so far answered
    response,   \* the HTTP response of /query, status 0 while there is none
    questions,  \* the questions of the BatchQueryRequest
    gathered,   \* what each task of the batch has given asyncio.gather
    batch_response, \* the HTTP response of /batch-query, status 0 while none
    workers,    \* the tasks that hold a thread of the executor
    runs,       \* the state of each concurrent run of the graph
    collection, \* the Qdrant collection QDRANT_COLLECTION
    starts,     \* how many times create_vector_store has been called
    messages    \* st.session_state.messages of the chat front end

vars == <<request, state, pc, raised, executed, calls, leaf, response,
          questions, gathered, batch_response, workers, runs,
          collection, starts, messages>>

\* the variables of the executor, of the collection and of the front end
other_vars == <<workers, runs, collection, starts, messages>>

----------------------------------------------------------------------------
(* Bounds and program constants *)

\* number of chunks held by the collection
CorpusSize == 3

\* largest number of questions in one batch request
MaxBatch == 2

\* largest number of questions in one batch request to the thread pool
MaxPoolBatch == 5

\* ThreadPoolExecutor(max_workers=4)
max_workers == 4

\* largest number of calls of create_vector_store
MaxStarts == 3

\* largest number of prompts submitted to the chat before it is cleared
MaxPrompts == 2

RETRIEVAL_TOP_K == 10

RERANK_TOP_N == 3

----------------------------------------------------------------------------
(* Strings *)

EmptyStr == <<>>

EmptyDict == [k \in {} |-> 0]

Whitespace == {" ", "\n", "\t"}

UpperToLower == [A |-> "a", B |-> "b", D |-> "d", E |-> "e", F |-> "f",
                 H |-> "h", N |-> "n", P |-> "p", R |-> "r", T |-> "t",
                 W |-> "w"]

LowerChar(c) == IF c \in DOMAIN UpperToLower THEN UpperToLower[c] ELSE c

\* str.lower()
lower(s) == [i \in 1..Len(s) |-> LowerChar(s[i])]

RECURSIVE lstrip(_)
lstrip(s) == IF s # <<>> /\ Head(s) \in Whitespace THEN lstrip(Tail(s)) ELSE s

RECURSIVE rstrip(_)
rstrip(s) ==
    IF s # <<>> /\ s[Len(s)] \in Whitespace
    THEN rstrip(SubSeq(s, 1, Len(s) - 1))
    ELSE s

\* str.strip()
strip(s) == rstrip(lstrip(s))

\* s.startswith(p), on fragments
startswith(s, p) == Len(s) >= Len(p) /\ SubSeq(s, 1, Len(p)) = p

\* sep.join(parts): parts is a sequence of strings
RECURSIVE join(_, _)
join(sep, parts) ==
    IF parts = <<>> THEN EmptyStr
    ELSE IF Len(parts) = 1 THEN parts[1]
    ELSE parts[1] \o sep \o join(sep, Tail(parts))

weather == <<"w", "e", "a", "t", "h", "e", "r">>

pdf == <<"p", "d", "f">>

----------------------------------------------------------------------------
(* Node results: a raised exception, or the partial state a node returns, *)
(* together with the leaf-capability calls the node made.                 *)

Call(site, ok, arg) == [site |-> site, ok |-> ok, arg |-> arg]

Raise(err, cs) == [raised |-> TRUE, err |-> err, patch |-> EmptyDict, calls |-> cs]

Return(patch, cs) == [raised |-> FALSE, err |-> EmptyStr, patch |-> patch, calls |-> cs]

\* outcome of one language-model call: the text, or a transport/quota error
LLMError == [ok |-> FALSE, text |-> <<"llm transport error">>]

LLMText(t) == [ok |-> TRUE, text |-> t]

----------------------------------------------------------------------------
(* Router *)

router_node(st, llm) ==
    IF ~llm.ok
    THEN Raise(llm.text, <<Call("router_llm", FALSE, st.question)>>)
    ELSE Return([route |-> lower(strip(llm.text))],
                <<Call("router_llm", TRUE, st.question)>>)

route_question_weather_default(st) ==
    IF st.route = pdf THEN "pdf" ELSE "weather"

route_question(st) ==
    IF st.route = weather THEN "weather" ELSE "pdf"

----------------------------------------------------------------------------
(* WeatherStage *)

\* requests.get raised, or the response it returned: status, whether the
\* body is JSON, and the parsed body
FetchRaised(msg) ==
    [get_ok |-> FALSE, status |-> 0, json_ok |-> FALSE, body |-> EmptyDict, err |-> msg]

FetchResponse(status, json_ok, body) ==
    [get_ok |-> TRUE, status |-> status, json_ok |-> json_ok, body |-> body, err |-> EmptyStr]

\* Response.raise_for_status(): HTTPError for 4xx and 5xx
raise_for_status(status) == status >= 400 /\ status < 600

\* the first subscript of the context template that fails on this body:
\* str(KeyError(k)) or str(IndexError), "" when every subscript succeeds
MissingField(body) ==
    IF "name" \notin DOMAIN body THEN <<"'name'">>
    ELSE IF "sys" \notin DOMAIN body THEN <<"'sys'">>
    ELSE IF "country" \notin DOMAIN body.sys THEN <<"'country'">>
    ELSE IF "main" \notin DOMAIN body THEN <<"'main'">>
    ELSE IF "temp" \notin DOMAIN body.main THEN <<"'temp'">>
    ELSE IF "feels_like" \notin DOMAIN body.main THEN <<"'feels_like'">>
    ELSE IF "humidity" \notin DOMAIN body.main THEN <<"'humidity'">>
    ELSE IF "weather" \notin DOMAIN body THEN <<"'weather'">>
    ELSE IF Len(body.weather) = 0 THEN <<"list index out of range">>
    ELSE IF "description" \notin DOMAIN body.weather[1] THEN <<"'description'">>
    ELSE IF "wind" \notin DOMAIN body THEN <<"'wind'">>
    ELSE IF "speed" \notin DOMAIN body.wind THEN <<"'speed'">>
    ELSE EmptyStr

\* the exception the try block of weather_node ends with, "" when none
FetchError(fetch) ==
    IF ~fetch.get_ok THEN fetch.err
    ELSE IF raise_for_status(fetch.status) THEN <<ToString(fetch.status), " Error">>
    ELSE IF ~fetch.json_ok THEN <<"Expecting value">>
    ELSE MissingField(fetch.body)

WeatherContext_swapped(w) ==
    <<"\n        ", "Location: ", w.name, ", ", w.sys.country, "\n        ",
      "Temperature: ", ToString(w.main.feels_like), "°C\n        ",
      "Feels Like: ", ToString(w.main.temp), "°C\n        ",
      "Humidity: ", ToString(w.main.humidity), "%\n        ",
      "Weather: ", w.weather[1].description, "\n        ",
      "Wind Speed: ", ToString(w.wind.speed), " m/s\n        ">>

\* the f-string of weather_node
WeatherContext(w) ==
    <<"\n        ", "Location: ", w.name, ", ", w.sys.country, "\n        ",
      "Temperature: ", ToString(w.main.temp), "°C\n        ",
      "Feels Like: ", ToString(w.main.feels_like), "°C\n        ",
      "Humidity: ", ToString(w.main.humidity), "%\n        ",
      "Weather: ", w.weather[1].description, "\n        ",
      "Wind Speed: ", ToString(w.wind.speed), " m/s\n        ">>

weather_node_keep_data(st, llm, fetch) ==
    IF ~llm.ok
    THEN Raise(llm.text, <<Call("location_llm", FALSE, st.question)>>)
    ELSE LET city == strip(llm.text)
             e    == FetchError(fetch)
             cs   == <<Call("location_llm", TRUE, st.question),
                       Call("weather_fetch", e = EmptyStr, city)>>
         IN  IF e = EmptyStr
             THEN Return([weather_data |-> fetch.body,
                          context |-> WeatherContext(fetch.body)], cs)
             ELSE Return([weather_data |-> fetch.body,
                          context |-> <<"Error fetching weather data: ">> \o e], cs)

weather_node_retry(st, llm, fetch) ==
    IF ~llm.ok
    THEN Raise(llm.text, <<Call("location_llm", FALSE, st.question)>>)
    ELSE LET city == strip(llm.text)
             e    == FetchError(fetch)
             cs   == <<Call("location_llm", TRUE, st.question),
                       Call("weather_fetch", e = EmptyStr, city)>>
         IN  IF e = EmptyStr
             THEN Return([weather_data |-> fetch.body,
                          context |-> WeatherContext(fetch.body)], cs)
             ELSE Return([weather_data |-> EmptyDict,
                          context |-> <<"Error fetching weather data: ">> \o e],
                         cs \o <<Call("weather_fetch", FALSE, city)>>)

weather_node(st, llm, fetch) ==
    IF ~llm.ok
    THEN Raise(llm.text, <<Call("location_llm", FALSE, st.question)>>)
    ELSE LET city == strip(llm.text)
             e    == FetchError(fetch)
             cs   == <<Call("location_llm", TRUE, st.question),
                       Call("weather_fetch", e = EmptyStr, city)>>
         IN  IF e = EmptyStr
             THEN Return([weather_data |-> fetch.body,
                          context |-> WeatherContext(fetch.body)], cs)
             ELSE Return([weather_data |-> EmptyDict,
                          context |-> <<"Error fetching weather data: ">> \o e], cs)

----------------------------------------------------------------------------
(* DocumentStage *)

\* outcome of get_vector_store(), of retriever.invoke() and of co.rerank():
\* an exception, or the value returned
Failed(msg) == [ok |-> FALSE, err |-> msg, val |-> <<>>]

Returned(v) == [ok |-> TRUE, err |-> EmptyStr, val |-> v]

rag_error_raise(e, cs) == Raise(e, cs)

rag_error_no_prefix(e, cs) ==
    Return([retrieved_docs |-> <<>>, context |-> e, rerank_scores |-> <<>>], cs)

rag_error(e, cs) ==
    Return([retrieved_docs |-> <<>>,
            context |-> <<"Error retrieving documents: ">> \o e,
            rerank_scores |-> <<>>], cs)

rag_retrieval_node_partial(st, vs, search, rr) ==
    LET c1 == <<Call("get_vector_store", vs.ok, EmptyStr)>>
        c2 == c1 \o <<Call("similarity_search", search.ok, st.question)>>
        documents == [i \in 1..Len(search.val) |-> search.val[i].page_content]
        c3 == c2 \o <<Call("rerank", rr.ok, documents)>>
        retrieved_texts == [i \in 1..Len(rr.val) |-> rr.val[i].text]
        rerank_scores == [i \in 1..Len(rr.val) |-> rr.val[i].relevance_score]
    IN  IF ~vs.ok THEN rag_error(vs.err, c1)
        ELSE IF ~search.ok THEN rag_error(search.err, c2)
        ELSE IF ~rr.ok
        THEN Return([retrieved_docs |-> documents,
                     context |-> <<"Error retrieving documents: ">> \o rr.err,
                     rerank_scores |-> <<>>], c3)
        ELSE Return([retrieved_docs |-> retrieved_texts,
                     context |-> join(<<"\n\n">>, [i \in 1..Len(retrieved_texts) |-> <<retrieved_texts[i]>>]),
                     rerank_scores |-> rerank_scores], c3)

rag_retrieval_node_skip_first(st, vs, search, rr) ==
    LET c1 == <<Call("get_vector_store", vs.ok, EmptyStr)>>
        c2 == c1 \o <<Call("similarity_search", search.ok, st.question)>>
        documents == [i \in 1..Len(search.val) |-> search.val[i].page_content]
        c3 == c2 \o <<Call("rerank", rr.ok, documents)>>
        results == IF rr.val = <<>> THEN <<>> ELSE Tail(rr.val)
        retrieved_texts == [i \in 1..Len(results) |-> results[i].text]
        rerank_scores == [i \in 1..Len(results) |-> results[i].relevance_score]
    IN  IF ~vs.ok THEN rag_error(vs.err, c1)
        ELSE IF ~search.ok THEN rag_error(search.err, c2)
        ELSE IF ~rr.ok THEN rag_error(rr.err, c3)
        ELSE Return([retrieved_docs |-> retrieved_texts,
                     context |-> join(<<"\n\n">>, [i \in 1..Len(retrieved_texts) |-> <<retrieved_texts[i]>>]),
                     rerank_scores |-> rerank_scores], c3)

rag_retrieval_node_reversed_texts(st, vs, search, rr) ==
    LET c1 == <<Call("get_vector_store", vs.ok, EmptyStr)>>
        c2 == c1 \o <<Call("similarity_search", search.ok, st.question)>>
        documents == [i \in 1..Len(search.val) |-> search.val[i].page_content]
        c3 == c2 \o <<Call("rerank", rr.ok, documents)>>
        retrieved_texts == [i \in 1..Len(rr.val) |-> rr.val[Len(rr.val) + 1 - i].text]
        rerank_scores == [i \in 1..Len(rr.val) |-> rr.val[i].relevance_score]
    IN  IF ~vs.ok THEN rag_error(vs.err, c1)
        ELSE IF ~search.ok THEN rag_error(search.err, c2)
        ELSE IF ~rr.ok THEN rag_error(rr.err, c3)
        ELSE Return([retrieved_docs |-> retrieved_texts,
                     context |-> join(<<"\n\n">>, [i \in 1..Len(retrieved_texts) |-> <<retrieved_texts[i]>>]),
                     rerank_scores |-> rerank_scores], c3)

rag_retrieval_node(st, vs, search, rr) ==
    LET c1 == <<Call("get_vector_store", vs.ok, EmptyStr)>>
        c2 == c1 \o <<Call("similarity_search", search.ok, st.question)>>
        \* documents = [doc.page_content for doc in initial_docs]
        documents == [i \in 1..Len(search.val) |-> search.val[i].page_content]
        c3 == c2 \o <<Call("rerank", rr.ok, documents)>>
        retrieved_texts == [i \in 1..Len(rr.val) |-> rr.val[i].text]
        rerank_scores == [i \in 1..Len(rr.val) |-> rr.val[i].relevance_score]
    IN  IF ~vs.ok THEN rag_error(vs.err, c1)
        ELSE IF ~search.ok THEN rag_error(search.err, c2)
        ELSE IF ~rr.ok THEN rag_error(rr.err, c3)
        ELSE Return([retrieved_docs |-> retrieved_texts,
                     context |-> join(<<"\n\n">>, [i \in 1..Len(retrieved_texts) |-> <<retrieved_texts[i]>>]),
                     rerank_scores |-> rerank_scores], c3)

----------------------------------------------------------------------------
(* Generation *)

WeatherSystemPrompt == "You are a helpful weather assistant."

DocumentSystemPrompt == "You are a helpful assistant. Use the provided document context"

generation_prompt_pdf_check(st) ==
    IF st.route = pdf
    THEN <<DocumentSystemPrompt, "Context:\n">> \o st.context
            \o <<"\n\nQuestion: ">> \o st.question \o <<"\n\nAnswer:">>
    ELSE <<WeatherSystemPrompt, "Weather Data:\n">> \o st.context
            \o <<"\n\nQuestion: ">> \o st.question \o <<"\n\nAnswer:">>

generation_prompt(st) ==
    IF st.route = weather
    THEN <<WeatherSystemPrompt, "Weather Data:\n">> \o st.context
            \o <<"\n\nQuestion: ">> \o st.question \o <<"\n\nAnswer:">>
    ELSE <<DocumentSystemPrompt, "Context:\n">> \o st.context
            \o <<"\n\nQuestion: ">> \o st.question \o <<"\n\nAnswer:">>

generation_node_swallow(st, llm) ==
    IF ~llm.ok
    THEN Return([generation |-> EmptyStr],
                <<Call("generation_llm", FALSE, generation_prompt(st))>>)
    ELSE Return([generation |-> llm.text],
                <<Call("generation_llm", TRUE, generation_prompt(st))>>)

generation_node_writes_route(st, llm) ==
    IF ~llm.ok
    THEN Raise(llm.text, <<Call("generation_llm", FALSE, generation_prompt(st))>>)
    ELSE Return([generation |-> llm.text,
                 route |-> IF st.route = weather THEN weather ELSE pdf],
                <<Call("generation_llm", TRUE, generation_prompt(st))>>)

generation_node_clears_context(st, llm) ==
    IF ~llm.ok
    THEN Raise(llm.text, <<Call("generation_llm", FALSE, generation_prompt(st))>>)
    ELSE Return([generation |-> llm.text, context |-> EmptyStr],
                <<Call("generation_llm", TRUE, generation_prompt(st))>>)

generation_node(st, llm) ==
    IF ~llm.ok
    THEN Raise(llm.text, <<Call("generation_llm", FALSE, generation_prompt(st))>>)
    ELSE Return([generation |-> llm.text],
                <<Call("generation_llm", TRUE, generation_prompt(st))>>)

----------------------------------------------------------------------------
(* Evaluation *)

\* the code-fence markers of the rubric output; a backquote cannot be written
\* in a string here, so <fence> stands for the three backquotes
FenceJson == "<fence>json"

Fence == "<fence>"

\* a JSON value: its type, the members of an object, the value of a number
JsonDict(d) == [t |-> "dict", d |-> d, n |-> 0]

JsonInt(n) == [t |-> "int", d |-> EmptyDict, n |-> n]

JsonList == [t |-> "list", d |-> EmptyDict, n |-> 0]

JsonNull == [t |-> "null", d |-> EmptyDict, n |-> 0]

ScoresText == "{\"relevance\": 8, \"accuracy\": 9, \"completeness\": 7}"

PartialText == "{\"relevance\": 8, \"accuracy\": 9}"

\* an object with a fourth member, a string that holds the three backquotes
NoteText ==
    <<"{\"relevance\": 8, \"accuracy\": 9, \"completeness\": 7, \"note\": \"", Fence, "\"}">>

\* the same text without the backquotes: the note is the empty string
NoteTextEmptied ==
    <<"{\"relevance\": 8, \"accuracy\": 9, \"completeness\": 7, \"note\": \"", "\"}">>

\* the JSON documents the rubric outputs are built from, and what they denote
JsonTexts ==
    (<<ScoresText>> :> JsonDict([relevance |-> 8, accuracy |-> 9, completeness |-> 7]))
    @@ (<<PartialText>> :> JsonDict([relevance |-> 8, accuracy |-> 9]))
    @@ (NoteText :> JsonDict([relevance |-> 8, accuracy |-> 9, completeness |-> 7,
                              note |-> <<Fence>>]))
    @@ (NoteTextEmptied :> JsonDict([relevance |-> 8, accuracy |-> 9, completeness |-> 7,
                                     note |-> EmptyStr]))
    @@ (<<"5">> :> JsonInt(5))
    @@ (<<"[8, 9, 7]">> :> JsonList)
    @@ (<<"null">> :> JsonNull)

\* str.replace(FenceJson, ""): the fragments that are the marker go
remove_fence_json(s) == SelectSeq(s, LAMBDA f : f # FenceJson)

\* str.replace(Fence, ""): a plain fence goes, a json fence still there
\* loses its three backquotes and becomes "json"
remove_fence(s) ==
    [i \in 1..Len(SelectSeq(s, LAMBDA f : f # Fence)) |->
        LET f == SelectSeq(s, LAMBDA g : g # Fence)[i]
        IN  IF f = FenceJson THEN "json" ELSE f]

\* the cleaning of evaluation_node on the rubric output
clean(raw) ==
    LET r == strip(raw)
    IN  IF r # <<>> /\ Head(r) = FenceJson THEN remove_fence(remove_fence_json(r))
        ELSE IF r # <<>> /\ Head(r) = Fence THEN remove_fence(r)
        ELSE r

\* json.loads: one JSON document, whitespace around it allowed
json_ok(s) == strip(s) \in DOMAIN JsonTexts

json_loads(s) == JsonTexts[strip(s)]

json_error(s) ==
    IF \E k \in 1..Len(strip(s)) : SubSeq(strip(s), 1, k) \in DOMAIN JsonTexts
    THEN <<"Extra data">>
    ELSE <<"Expecting value">>

evaluation_prompt(st) ==
    <<"Evaluate the response on a scale of 1-10", "Question: ">> \o st.question
        \o <<"\n\nContext: ">> \o st.context \o <<"\n\nResponse: ">> \o st.generation

eval_error_raise(e, cs) == Raise(e, cs)

eval_error_clears_answer(e, cs) ==
    Return([evaluation |-> JsonDict([error |-> e]), generation |-> EmptyStr], cs)

eval_error(e, cs) == Return([evaluation |-> JsonDict([error |-> e])], cs)

evaluation_node_invoke_outside_try(st, llm) ==
    LET cs == <<Call("evaluation_llm", llm.ok, evaluation_prompt(st))>>
    IN  IF ~llm.ok THEN Raise(llm.text, cs)
        ELSE IF ~json_ok(clean(llm.text)) THEN eval_error(json_error(clean(llm.text)), cs)
        ELSE Return([evaluation |-> json_loads(clean(llm.text))], cs)

evaluation_node(st, llm) ==
    LET cs == <<Call("evaluation_llm", llm.ok, evaluation_prompt(st))>>
    IN  IF ~llm.ok THEN eval_error(llm.text, cs)
        ELSE IF ~json_ok(clean(llm.text)) THEN eval_error(json_error(clean(llm.text)), cs)
        ELSE Return([evaluation |-> json_loads(clean(llm.text))], cs)

----------------------------------------------------------------------------
(* The graph *)

Nodes == {"router", "weather", "rag_retrieval", "generation", "evaluation"}

\* add_edge(...) of build_graph
edges == [START |-> "router", weather |-> "generation",
          rag_retrieval |-> "generation", generation |-> "evaluation",
          evaluation |-> "END"]

\* the path map of add_conditional_edges("router", route_question, ...)
conditional_edges == [weather |-> "weather", pdf |-> "rag_retrieval"]

next_node_skip(node, st) ==
    IF node = "router" THEN conditional_edges[route_question(st)]
    ELSE IF node = "weather" THEN "evaluation"
    ELSE edges[node]

\* the node the compiled graph runs after node, on the state node left
next_node(node, st) ==
    IF node = "router" THEN conditional_edges[route_question(st)]
    ELSE edges[node]

\* the reducer of a TypedDict state: a returned key overwrites the field
merge(st, patch) ==
    [f \in DOMAIN st |-> IF f \in DOMAIN patch THEN patch[f] ELSE st[f]]

\* the state process_query_async hands to graph_app.invoke
initial_state(question) ==
    [question |-> question, route |-> EmptyStr, context |-> EmptyStr,
     weather_data |-> EmptyDict, retrieved_docs |-> <<>>, rerank_scores |-> <<>>,
     generation |-> EmptyStr, evaluation |-> JsonDict(EmptyDict)]

----------------------------------------------------------------------------
(* POST /query *)

Some(v) == [some |-> TRUE, v |-> v]

None(empty) == [some |-> FALSE, v |-> empty]

NoResponse == [status |-> 0, detail |-> EmptyStr, body |-> EmptyDict]

HTTPException(status, detail) == [status |-> status, detail |-> detail, body |-> EmptyDict]

\* pydantic accepts a dict or None for evaluation: Optional[Dict]
valid_evaluation(ev) == ev.t \in {"dict", "null"}

\* the body of query(): result is what process_query_async returned or raised
query(question, exc, result) ==
    IF exc.raised
    THEN HTTPException(500, <<"Error processing query: ">> \o exc.err)
    ELSE IF ~valid_evaluation(result.evaluation)
    THEN HTTPException(500, <<"Error processing query: ", "1 validation error for QueryResponse">>)
    ELSE [status |-> 200, detail |-> EmptyStr,
          body |-> [question |-> question,
                    answer |-> result.generation,
                    route |-> result.route,
                    context |-> result.context,
                    weather_data |-> IF result.route = weather
                                     THEN Some(result.weather_data) ELSE None(EmptyDict),
                    retrieved_docs |-> IF result.route = pdf
                                       THEN Some(result.retrieved_docs) ELSE None(<<>>),
                    rerank_scores |-> IF result.route = pdf
                                      THEN Some(result.rerank_scores) ELSE None(<<>>),
                    evaluation |-> result.evaluation]]

----------------------------------------------------------------------------
(* The inputs of a run: the question and what the leaf capabilities answer *)

Min(a, b) == IF a < b THEN a ELSE b

Questions == {<<"What's the weather in London?">>, <<"Who was Kalam?">>}

ClassifierOutputs ==
    { weather,
      <<" ", "W", "e", "a", "t", "h", "e", "r", "\n">>,
      pdf,
      <<"d", "o", "c", "u", "m", "e", "n", "t">>,
      <<"b", "a", "n", "a", "n", "a">>,
      EmptyStr }

LocationOutputs == {<<"London">>, <<" ", "Atlantis", "\n">>}

London ==
    [name |-> "London", sys |-> [country |-> "GB"],
     main |-> [temp |-> 15, feels_like |-> 13, humidity |-> 80],
     weather |-> <<[description |-> "cloudy"]>>, wind |-> [speed |-> 5]]

Oslo ==
    [name |-> "Oslo", sys |-> [country |-> "NO"],
     main |-> [temp |-> -3, feels_like |-> -8, humidity |-> 60],
     weather |-> <<[description |-> "snow"], [description |-> "mist"]>>,
     wind |-> [speed |-> 7]]

WellFormedBodies == {London, Oslo}

MalformedBodies ==
    { [cod |-> "404", message |-> "city not found"],
      [sys |-> [country |-> "GB"],
       main |-> [temp |-> 15, feels_like |-> 13, humidity |-> 80],
       weather |-> <<[description |-> "cloudy"]>>, wind |-> [speed |-> 5]],
      [name |-> "London", sys |-> [country |-> "GB"],
       main |-> [temp |-> 15, feels_like |-> 13],
       weather |-> <<[description |-> "cloudy"]>>, wind |-> [speed |-> 5]],
      [name |-> "London", sys |-> [country |-> "GB"],
       main |-> [temp |-> 15, feels_like |-> 13, humidity |-> 80],
       weather |-> <<>>, wind |-> [speed |-> 5]],
      [name |-> "London", sys |-> [country |-> "GB"],
       main |-> [temp |-> 15, feels_like |-> 13, humidity |-> 80],
       weather |-> <<[description |-> "cloudy"]>>] }

FetchOutcomes ==
    { FetchRaised(<<"Timeout error">>),
      FetchResponse(404, TRUE, [cod |-> "404", message |-> "city not found"]),
      FetchResponse(500, FALSE, EmptyDict),
      FetchResponse(200, FALSE, EmptyDict) }
    \cup { FetchResponse(200, TRUE, b) : b \in WellFormedBodies \cup MalformedBodies }

VectorStoreOutcomes ==
    { Failed(<<"Collection pdf_documents not found">>), Returned(<<>>) }

\* the chunks of the collection, most similar first
Corpus == [i \in 1..CorpusSize |-> [page_content |-> "chunk" \o ToString(i)]]

\* the search returns the k most similar chunks, fewer when there are fewer
SearchOutcomes ==
    { Failed(<<"search failed">>) }
    \cup { Returned(SubSeq(Corpus, 1, n)) : n \in 0..Min(RETRIEVAL_TOP_K, CorpusSize) }

\* relevance scores, in tenths
Scores == {2, 9}

\* the reranker answers with top_n of the documents, fewer when there are
\* fewer, in an order and with scores of its own; or it fails
RerankOutcomes(documents, top_n) ==
    LET n == Min(top_n, Len(documents))
        picks == { p \in [1..n -> 1..Len(documents)] :
                     \A i, j \in 1..n : i # j => p[i] # p[j] }
    IN  { Failed(<<"rerank failed">>) }
        \cup { Returned([i \in 1..n |-> [text |-> documents[p[i]],
                                         relevance_score |-> sc[i]]]) :
                 p \in picks, sc \in [1..n -> Scores] }

GenerationOutputs == {<<"The answer.">>, EmptyStr}

EvaluationOutputs ==
    { <<ScoresText>>,
      <<" ", ScoresText, "\n">>,
      <<FenceJson, "\n", ScoresText, "\n", Fence>>,
      <<Fence, "\n", ScoresText, "\n", Fence>>,
      NoteText,
      <<FenceJson, "\n">> \o NoteText \o <<"\n", Fence>>,
      <<Fence, "\n">> \o NoteText \o <<"\n", Fence>>,
      <<PartialText>>,
      <<"not json">>,
      <<"5">>,
      <<"[8, 9, 7]">>,
      <<"null">> }

LLMOutcomes(texts) == {LLMError} \cup {LLMText(t) : t \in texts}

----------------------------------------------------------------------------
(* The run *)

NoException == [raised |-> FALSE, node |-> "", err |-> EmptyStr]

NoBatchResponse == [status |-> 0, results |-> <<>>]

\* no /batch-query request is in flight
NoBatch ==
    /\ questions = <<>>
    /\ gathered = <<>>
    /\ batch_response = NoBatchResponse
    /\ workers = {}
    /\ runs = <<>>

\* the collection is not there
NoCollection == [exists |-> FALSE, points_count |-> 0]

\* the collection and the front end play no part
NoStore ==
    /\ collection = NoCollection
    /\ starts = 0
    /\ messages = <<>>

Init ==
    /\ request \in Questions
    /\ state = initial_state(request)
    /\ pc = edges.START
    /\ raised = NoException
    /\ executed = <<>>
    /\ calls = <<>>
    /\ leaf = EmptyDict
    /\ response = NoResponse
    /\ NoBatch
    /\ NoStore

Running(node) == pc = node /\ ~raised.raised /\ response.status = 0

\* what the leaf capabilities a node called answered
Delivered(cs, outs) == [s \in {cs[i].site : i \in DOMAIN cs} |-> outs[s]]

\* one superstep of the compiled graph: node ran and gave r
Step(node, r, outs) ==
    /\ executed' = Append(executed, node)
    /\ calls' = calls \o r.calls
    /\ leaf' = Delivered(r.calls, outs) @@ leaf
    /\ IF r.raised
       THEN /\ raised' = [raised |-> TRUE, node |-> node, err |-> r.err]
            /\ UNCHANGED <<state, pc>>
       ELSE /\ state' = merge(state, r.patch)
            /\ pc' = next_node(node, merge(state, r.patch))
            /\ UNCHANGED raised
    /\ UNCHANGED <<request, response, questions, gathered, batch_response>>
    /\ UNCHANGED other_vars

Router ==
    /\ Running("router")
    /\ \E llm \in LLMOutcomes(ClassifierOutputs) :
         Step("router", router_node(state, llm), [router_llm |-> llm])

WeatherStage ==
    /\ Running("weather")
    /\ \E llm \in LLMOutcomes(LocationOutputs), fetch \in FetchOutcomes :
         Step("weather", weather_node(state, llm, fetch),
              [location_llm |-> llm, weather_fetch |-> fetch])

DocumentStage ==
    /\ Running("rag_retrieval")
    /\ \E vs \in VectorStoreOutcomes, search \in SearchOutcomes :
         \E rr \in RerankOutcomes([i \in 1..Len(search.val) |-> search.val[i].page_content],
                                  RERANK_TOP_N) :
            Step("rag_retrieval", rag_retrieval_node(state, vs, search, rr),
                 [get_vector_store |-> vs, similarity_search |-> search, rerank |-> rr])

Generation ==
    /\ Running("generation")
    /\ \E llm \in LLMOutcomes(GenerationOutputs) :
         Step("generation", generation_node(state, llm), [generation_llm |-> llm])

Evaluation ==
    /\ Running("evaluation")
    /\ \E llm \in LLMOutcomes(EvaluationOutputs) :
         Step("evaluation", evaluation_node(state, llm), [evaluation_llm |-> llm])

\* query() gets the final state, or the exception, and answers
Query ==
    /\ response.status = 0
    /\ pc = "END" \/ raised.raised
    /\ response' = query(request, raised, state)
    /\ UNCHANGED <<request, state, pc, raised, executed, calls, leaf>>
    /\ UNCHANGED <<questions, gathered, batch_response>>
    /\ UNCHANGED other_vars

Next == Router \/ WeatherStage \/ DocumentStage \/ Generation \/ Evaluation \/ Query

Spec == Init /\ [][Next]_vars

\* graph_app.invoke is one synchronous call: a node whose predecessor has
\* returned runs, and query() answers once invoke has returned or raised
LiveSpec == Init /\ [][Next]_vars /\ WF_vars(Next)

----------------------------------------------------------------------------
(* DocumentStage on the reference deployment: the collection holds at   *)
(* least RETRIEVAL_TOP_K chunks, so the search returns RETRIEVAL_TOP_K  *)
(* candidates.  The run starts where the Router has answered "pdf".     *)

TopKCorpus == [i \in 1..RETRIEVAL_TOP_K |-> [page_content |-> "chunk" \o ToString(i)]]

TopKSearchOutcomes == { Failed(<<"search failed">>), Returned(TopKCorpus) }

RagInit ==
    /\ request \in Questions
    /\ LET r == router_node(initial_state(request), LLMText(pdf))
       IN  /\ state = merge(initial_state(request), r.patch)
           /\ pc = next_node("router", merge(initial_state(request), r.patch))
           /\ calls = r.calls
    /\ raised = NoException
    /\ executed = <<"router">>
    /\ leaf = [router_llm |-> LLMText(pdf)]
    /\ response = NoResponse
    /\ NoBatch
    /\ NoStore

DocumentStageTopK ==
    /\ Running("rag_retrieval")
    /\ \E vs \in VectorStoreOutcomes, search \in TopKSearchOutcomes :
         \E rr \in RerankOutcomes([i \in 1..Len(search.val) |-> search.val[i].page_content],
                                  RERANK_TOP_N) :
            Step("rag_retrieval", rag_retrieval_node(state, vs, search, rr),
                 [get_vector_store |-> vs, similarity_search |-> search, rerank |-> rr])

RagNext == DocumentStageTopK

RagSpec == RagInit /\ [][RagNext]_vars

----------------------------------------------------------------------------
(* POST /batch-query: one task per question, each a whole run of the graph *)
(* in the thread pool; gather collects what each task returned or raised.  *)

\* what node returns on st when the leaf capabilities answer outs
node_result(node, st, outs) ==
    CASE node = "router" -> router_node(st, outs.router_llm)
      [] node = "weather" -> weather_node(st, outs.location_llm, outs.weather_fetch)
      [] node = "rag_retrieval" ->
            rag_retrieval_node(st, outs.get_vector_store, outs.similarity_search,
                               outs.rerank)
      [] node = "generation" -> generation_node(st, outs.generation_llm)
      [] node = "evaluation" -> evaluation_node(st, outs.evaluation_llm)

RECURSIVE run_graph(_, _, _)
\* graph_app.invoke from node on: the final state, or the exception of the
\* node that raised
run_graph(node, st, outs) ==
    IF node = "END"
    THEN [done |-> TRUE, raised |-> FALSE, err |-> EmptyStr, state |-> st]
    ELSE LET r == node_result(node, st, outs)
         IN  IF r.raised
             THEN [done |-> TRUE, raised |-> TRUE, err |-> r.err, state |-> st]
             ELSE run_graph(next_node(node, merge(st, r.patch)),
                            merge(st, r.patch), outs)

\* process_query_async(question)
process_query_async(question, outs) ==
    run_graph(edges.START, initial_state(question), outs)

\* a task that has not finished
Pending(question) ==
    [done |-> FALSE, raised |-> FALSE, err |-> EmptyStr,
     state |-> initial_state(question)]

error_route == <<"e", "r", "r", "o", "r">>

\* the QueryResponse batch_query builds for one gathered result
batch_item(question, result) ==
    IF result.raised
    THEN [question |-> question,
          answer |-> <<"Error: ">> \o result.err,
          route |-> error_route,
          context |-> EmptyStr,
          weather_data |-> None(EmptyDict),
          retrieved_docs |-> None(<<>>),
          rerank_scores |-> None(<<>>),
          evaluation |-> JsonNull]
    ELSE [question |-> question,
          answer |-> result.state.generation,
          route |-> result.state.route,
          context |-> result.state.context,
          weather_data |-> Some(result.state.weather_data),
          retrieved_docs |-> Some(result.state.retrieved_docs),
          rerank_scores |-> Some(result.state.rerank_scores),
          evaluation |-> result.state.evaluation]

\* the body of batch_query() after gather: a QueryResponse that pydantic
\* rejects is raised out of the handler, which the server answers with 500
batch_query(qs, rs) ==
    IF \E i \in DOMAIN rs : ~rs[i].raised /\ ~valid_evaluation(rs[i].state.evaluation)
    THEN [status |-> 500, results |-> <<>>]
    ELSE [status |-> 200,
          results |-> [i \in DOMAIN qs |-> batch_item(qs[i], rs[i])]]

\* the batch requests: 1..MaxBatch questions
BatchRequests == UNION { [1..n -> Questions] : n \in 1..MaxBatch }

\* what the leaf capabilities answer during one task of a batch
BatchLeafOutcomes ==
    { [router_llm |-> r,
       location_llm |-> LLMText(<<"London">>),
       weather_fetch |-> f,
       get_vector_store |-> Returned(<<>>),
       similarity_search |-> Returned(SubSeq(Corpus, 1, 1)),
       rerank |-> Returned(<<[text |-> Corpus[1].page_content,
                              relevance_score |-> 9]>>),
       generation_llm |-> g,
       evaluation_llm |-> e] :
        r \in LLMOutcomes({weather, pdf}),
        f \in {FetchResponse(200, TRUE, London), FetchRaised(<<"Timeout error">>)},
        g \in LLMOutcomes({<<"The answer.">>}),
        e \in LLMOutcomes({<<ScoresText>>, <<"not json">>, <<"5">>}) }

BatchInit ==
    /\ questions \in BatchRequests
    /\ gathered = [i \in DOMAIN questions |-> Pending(questions[i])]
    /\ batch_response = NoBatchResponse
    /\ request = EmptyStr
    /\ state = initial_state(EmptyStr)
    /\ pc = edges.START
    /\ raised = NoException
    /\ executed = <<>>
    /\ calls = <<>>
    /\ leaf = EmptyDict
    /\ response = NoResponse
    /\ workers = {}
    /\ runs = <<>>
    /\ NoStore

\* one task of the batch finishes, in any order
TaskDone ==
    /\ batch_response.status = 0
    /\ \E i \in DOMAIN gathered, outs \in BatchLeafOutcomes :
         /\ ~gathered[i].done
         /\ gathered' = [gathered EXCEPT ![i] = process_query_async(questions[i], outs)]
    /\ UNCHANGED <<questions, batch_response>>
    /\ UNCHANGED <<request, state, pc, raised, executed, calls, leaf, response>>
    /\ UNCHANGED other_vars

\* gather has every result: batch_query builds the response
BatchRespond ==
    /\ batch_response.status = 0
    /\ \A i \in DOMAIN gathered : gathered[i].done
    /\ batch_response' = batch_query(questions, gathered)
    /\ UNCHANGED <<questions, gathered>>
    /\ UNCHANGED <<request, state, pc, raised, executed, calls, leaf, response>>
    /\ UNCHANGED other_vars

BatchNext == TaskDone \/ BatchRespond

BatchSpec == BatchInit /\ [][BatchNext]_vars

----------------------------------------------------------------------------
(* Concurrent runs: every graph_app.invoke gets the state dict built for   *)
(* it by invoke_graph, and the runs advance node by node in any order.     *)

\* no /query request is in flight
NoQuery ==
    /\ request = EmptyStr
    /\ state = initial_state(EmptyStr)
    /\ pc = edges.START
    /\ raised = NoException
    /\ executed = <<>>
    /\ calls = <<>>
    /\ leaf = EmptyDict
    /\ response = NoResponse

\* a run that graph_app.invoke has just been given
NewRun(question) ==
    [pc |-> edges.START, state |-> initial_state(question),
     raised |-> FALSE, err |-> EmptyStr, outs |-> EmptyDict]

\* what the leaf capabilities answer to node during a concurrent run
ConcNodeOutcomes(node) ==
    CASE node = "router" ->
            { [router_llm |-> r] : r \in LLMOutcomes({weather, pdf}) }
      [] node = "weather" ->
            { [location_llm |-> LLMText(<<"London">>), weather_fetch |-> f] :
                f \in {FetchResponse(200, TRUE, London),
                       FetchRaised(<<"Timeout error">>)} }
      [] node = "rag_retrieval" ->
            { [get_vector_store |-> Returned(<<>>),
               similarity_search |-> Returned(SubSeq(Corpus, 1, 1)),
               rerank |-> Returned(<<[text |-> Corpus[1].page_content,
                                      relevance_score |-> 9]>>)] }
      [] node = "generation" ->
            { [generation_llm |-> g] : g \in LLMOutcomes({<<"The answer.">>}) }
      [] node = "evaluation" ->
            { [evaluation_llm |-> LLMText(t)] : t \in {<<ScoresText>>, <<"5">>} }

run_state_shared(rs, i) == rs[1].state

\* the state a node of run i is called with: the state of that invocation
run_state(rs, i) == rs[i].state

ConcInit ==
    /\ questions \in BatchRequests
    /\ runs = [i \in DOMAIN questions |-> NewRun(questions[i])]
    /\ gathered = <<>>
    /\ batch_response = NoBatchResponse
    /\ workers = {}
    /\ NoQuery
    /\ NoStore

\* one node of one run runs
RunStep ==
    /\ \E i \in DOMAIN runs :
         /\ runs[i].pc # "END"
         /\ ~runs[i].raised
         /\ \E outs \in ConcNodeOutcomes(runs[i].pc) :
              LET st == run_state(runs, i)
                  r  == node_result(runs[i].pc, st, outs)
              IN  runs' = [runs EXCEPT ![i] =
                      IF r.raised
                      THEN [@ EXCEPT !.raised = TRUE, !.err = r.err,
                                     !.outs = outs @@ @]
                      ELSE [@ EXCEPT !.state = merge(st, r.patch),
                                     !.pc = next_node(runs[i].pc, merge(st, r.patch)),
                                     !.outs = outs @@ @]]
    /\ UNCHANGED <<questions, gathered, batch_response, workers, collection, starts, messages>>
    /\ UNCHANGED <<request, state, pc, raised, executed, calls, leaf, response>>

ConcNext == RunStep

ConcSpec == ConcInit /\ [][ConcNext]_vars

----------------------------------------------------------------------------
(* The thread pool under /batch-query: gather starts every task, each task *)
(* submits its run to the executor, whose threads take the runs in the     *)
(* order of submission.                                                    *)

PoolRequests ==
    { [i \in 1..n |-> q] : n \in 1..MaxPoolBatch, q \in Questions }

\* what the leaf capabilities answer during one run on the pool
PoolLeafOutcomes ==
    { [router_llm |-> r,
       location_llm |-> LLMText(<<"London">>),
       weather_fetch |-> FetchResponse(200, TRUE, London),
       get_vector_store |-> Returned(<<>>),
       similarity_search |-> Returned(SubSeq(Corpus, 1, 1)),
       rerank |-> Returned(<<[text |-> Corpus[1].page_content,
                              relevance_score |-> 9]>>),
       generation_llm |-> LLMText(<<"The answer.">>),
       evaluation_llm |-> LLMText(<<ScoresText>>)] :
        r \in LLMOutcomes({weather, pdf}) }

PoolInit ==
    /\ questions \in PoolRequests
    /\ gathered = [i \in DOMAIN questions |-> Pending(questions[i])]
    /\ batch_response = NoBatchResponse
    /\ workers = {}
    /\ runs = <<>>
    /\ NoQuery
    /\ NoStore

\* the run of task i is in the work queue of the executor
Queued(i) == ~gathered[i].done /\ i \notin workers

pool_has_idle_thread_always(ws) == TRUE

\* fewer than max_workers threads are busy
pool_has_idle_thread(ws) == Cardinality(ws) < max_workers

\* a thread of the executor takes the oldest queued run
PoolStart ==
    /\ pool_has_idle_thread(workers)
    /\ \E i \in DOMAIN gathered :
         /\ Queued(i)
         /\ \A j \in 1..(i - 1) : ~Queued(j)
         /\ workers' = workers \cup {i}
    /\ UNCHANGED <<questions, gathered, batch_response, runs, collection, starts, messages>>
    /\ UNCHANGED <<request, state, pc, raised, executed, calls, leaf, response>>

\* graph_app.invoke returns or raises in its thread; the thread is free
PoolFinish ==
    /\ \E i \in workers, outs \in PoolLeafOutcomes :
         /\ gathered' = [gathered EXCEPT ![i] = process_query_async(questions[i], outs)]
         /\ workers' = workers \ {i}
    /\ UNCHANGED <<questions, batch_response, runs, collection, starts, messages>>
    /\ UNCHANGED <<request, state, pc, raised, executed, calls, leaf, response>>

PoolNext == PoolStart \/ PoolFinish \/ BatchRespond

PoolSpec == PoolInit /\ [][PoolNext]_vars

\* every leaf call returns, a free thread takes a queued run, and the
\* event loop resumes batch_query when gather is complete
PoolLiveSpec == PoolInit /\ [][PoolNext]_vars /\ WF_vars(PoolNext)

----------------------------------------------------------------------------
(* The collection: create_vector_store at every start of the API or of the *)
(* front end, DELETE /collection and the Reset button, and a query that    *)
(* runs while the collection is created and deleted.                       *)

\* the collection after from_documents has added the chunks of the PDF
Populated == [exists |-> TRUE, points_count |-> CorpusSize]

\* the collection after create_collection, before any document is added
Created == [exists |-> TRUE, points_count |-> 0]

create_vector_store_always_adds(coll, get_raised, add_ok) ==
    IF coll.exists /\ get_raised THEN coll
    ELSE IF add_ok
         THEN [exists |-> TRUE, points_count |-> coll.points_count + CorpusSize]
         ELSE [exists |-> TRUE, points_count |-> coll.points_count]

\* the collection create_vector_store leaves: get_raised says that
\* get_collection raised, add_ok that from_documents stored the chunks
create_vector_store(coll, get_raised, add_ok) ==
    IF ~get_raised /\ coll.exists /\ coll.points_count > 0
    THEN coll
    ELSE IF get_raised /\ coll.exists
    THEN coll       \* create_collection raises: the collection is there
    ELSE IF add_ok
         THEN [exists |-> TRUE, points_count |-> coll.points_count + CorpusSize]
         ELSE [exists |-> TRUE, points_count |-> coll.points_count]

\* delete_collection
delete_collection(coll) == NoCollection

StoreInit ==
    /\ request \in Questions
    /\ state = initial_state(request)
    /\ pc = edges.START
    /\ raised = NoException
    /\ executed = <<>>
    /\ calls = <<>>
    /\ leaf = EmptyDict
    /\ response = NoResponse
    /\ NoBatch
    /\ collection \in {NoCollection, Created, [exists |-> TRUE, points_count |-> 1]}
    /\ starts = 0
    /\ messages = <<>>

\* a start of the API (startup_event) or of the front end
Startup ==
    /\ starts < MaxStarts
    /\ \E get_raised, add_ok \in BOOLEAN :
         /\ ~collection.exists => get_raised
         /\ collection' = create_vector_store(collection, get_raised, add_ok)
    /\ starts' = starts + 1
    /\ UNCHANGED <<request, state, pc, raised, executed, calls, leaf, response>>
    /\ UNCHANGED <<questions, gathered, batch_response, workers, runs, messages>>

\* DELETE /collection, or the Reset button
ResetCollection ==
    /\ collection' = delete_collection(collection)
    /\ UNCHANGED <<request, state, pc, raised, executed, calls, leaf, response>>
    /\ UNCHANGED <<questions, gathered, batch_response, workers, runs, starts, messages>>

MissingCollection == <<"Collection pdf_documents not found">>

\* what the store answers for the collection as it is: a missing collection
\* fails the construction of the store or the search, depending on the
\* client library; a collection that is there gives its most similar chunks
StoreOutcomes(coll) ==
    IF ~coll.exists
    THEN { [get_vector_store |-> Failed(MissingCollection),
            similarity_search |-> Failed(MissingCollection)],
           [get_vector_store |-> Returned(<<>>),
            similarity_search |-> Failed(MissingCollection)] }
    ELSE { [get_vector_store |-> Returned(<<>>),
            similarity_search |->
                Returned(SubSeq(Corpus, 1, Min(RETRIEVAL_TOP_K, coll.points_count)))] }

\* the reranker keeps the order of the search, or fails
StoreRerankOutcomes(documents) ==
    { Failed(<<"rerank failed">>),
      Returned([i \in 1..Min(RERANK_TOP_N, Len(documents)) |->
                  [text |-> documents[i], relevance_score |-> 9]]) }

StoreRouter ==
    /\ Running("router")
    /\ \E llm \in LLMOutcomes({weather, pdf}) :
         Step("router", router_node(state, llm), [router_llm |-> llm])

StoreWeatherStage ==
    /\ Running("weather")
    /\ \E fetch \in {FetchResponse(200, TRUE, London), FetchRaised(<<"Timeout error">>)} :
         Step("weather", weather_node(state, LLMText(<<"London">>), fetch),
              [location_llm |-> LLMText(<<"London">>), weather_fetch |-> fetch])

StoreDocumentStage ==
    /\ Running("rag_retrieval")
    /\ \E so \in StoreOutcomes(collection) :
         \E rr \in StoreRerankOutcomes(
                      [i \in 1..Len(so.similarity_search.val) |->
                          so.similarity_search.val[i].page_content]) :
            Step("rag_retrieval",
                 rag_retrieval_node(state, so.get_vector_store, so.similarity_search, rr),
                 [get_vector_store |-> so.get_vector_store,
                  similarity_search |-> so.similarity_search, rerank |-> rr])

StoreGeneration ==
    /\ Running("generation")
    /\ \E llm \in LLMOutcomes({<<"The answer.">>}) :
         Step("generation", generation_node(state, llm), [generation_llm |-> llm])

StoreEvaluation ==
    /\ Running("evaluation")
    /\ \E llm \in LLMOutcomes({<<ScoresText>>}) :
         Step("evaluation", evaluation_node(state, llm), [evaluation_llm |-> llm])

\* the steps of the query
StoreRunNext ==
    StoreRouter \/ StoreWeatherStage \/ StoreDocumentStage \/ StoreGeneration
        \/ StoreEvaluation \/ Query

StoreNext == StoreRunNext \/ Startup \/ ResetCollection

StoreSpec == StoreInit /\ [][StoreNext]_vars

\* the query advances; starts and resets happen when an operator makes them
StoreLiveSpec == StoreInit /\ [][StoreNext]_vars /\ WF_vars(StoreRunNext)

----------------------------------------------------------------------------
(* The chat front ends: app.py invokes the graph itself, app_frontend.py   *)
(* posts the prompt to /query.  Each keeps the chat history in             *)
(* st.session_state.messages.                                              *)

NoMetadata ==
    None([route |-> EmptyStr, evaluation |-> JsonNull,
          weather_data |-> None(EmptyDict), retrieved_chunks |-> None(0),
          rerank_scores |-> None(<<>>)])

user_message(prompt) ==
    [role |-> "user", content |-> prompt, metadata |-> NoMetadata]

\* the assistant message of app.py for what graph_app.invoke gave
assistant_message(result) ==
    IF result.raised
    THEN [role |-> "assistant", content |-> <<"Error: ">> \o result.err,
          metadata |-> NoMetadata]
    ELSE LET st == result.state
         IN  [role |-> "assistant", content |-> st.generation,
              metadata |-> Some(
                 [route |-> st.route, evaluation |-> st.evaluation,
                  weather_data |->
                     IF st.route = weather /\ st.weather_data # EmptyDict
                     THEN Some(st.weather_data) ELSE None(EmptyDict),
                  retrieved_chunks |->
                     IF st.route = pdf /\ st.retrieved_docs # <<>>
                     THEN Some(Len(st.retrieved_docs)) ELSE None(0),
                  rerank_scores |->
                     IF st.route = pdf /\ st.rerank_scores # <<>>
                     THEN Some(st.rerank_scores) ELSE None(<<>>)])]

chat_drop_error(msgs, prompt, result) ==
    IF result.raised
    THEN Append(msgs, user_message(prompt))
    ELSE msgs \o <<user_message(prompt), assistant_message(result)>>

\* the chat input handler of app.py
chat(msgs, prompt, result) ==
    msgs \o <<user_message(prompt), assistant_message(result)>>

\* query_backend of app_frontend.py: the JSON of a 200 response, or an
\* error descriptor
query_backend(transport_ok, resp) ==
    IF ~transport_ok THEN [error |-> Some(<<"All connection attempts failed">>), body |-> EmptyDict]
    ELSE IF resp.status = 200 THEN [error |-> None(EmptyStr), body |-> resp.body]
    ELSE [error |-> Some(<<"API returned status ", ToString(resp.status)>>),
          body |-> EmptyDict]

\* the assistant message of app_frontend.py; <cross> stands for the cross
\* mark character U+274C that begins its error text
frontend_message(response_data) ==
    IF response_data.error.some
    THEN [role |-> "assistant",
          content |-> <<"<cross> Error: ">> \o response_data.error.v,
          metadata |-> NoMetadata]
    ELSE LET b == response_data.body
         IN  [role |-> "assistant", content |-> b.answer,
              metadata |-> Some(
                 [route |-> b.route, evaluation |-> b.evaluation,
                  weather_data |->
                     IF b.route = weather THEN b.weather_data ELSE None(EmptyDict),
                  retrieved_chunks |->
                     IF b.route = pdf THEN Some(Len(b.retrieved_docs.v)) ELSE None(0),
                  rerank_scores |->
                     IF b.route = pdf THEN b.rerank_scores ELSE None(<<>>)])]

\* the chat input handler of app_frontend.py
chat_frontend(msgs, prompt, response_data) ==
    msgs \o <<user_message(prompt), frontend_message(response_data)>>

\* what the leaf capabilities answer during the run of one prompt
ChatLeafOutcomes ==
    { [router_llm |-> r,
       location_llm |-> LLMText(<<"London">>),
       weather_fetch |-> FetchResponse(200, TRUE, London),
       get_vector_store |-> Returned(<<>>),
       similarity_search |-> Returned(SubSeq(Corpus, 1, 1)),
       rerank |-> Returned(<<[text |-> Corpus[1].page_content,
                              relevance_score |-> 9]>>),
       generation_llm |-> LLMText(<<"The answer.">>),
       evaluation_llm |-> LLMText(t)] :
        r \in LLMOutcomes({weather, pdf}), t \in {<<ScoresText>>, <<"5">>} }

ChatInit ==
    /\ messages = <<>>
    /\ collection = NoCollection
    /\ starts = 0
    /\ NoBatch
    /\ NoQuery

\* a prompt is submitted to app.py
Chat ==
    /\ Len(messages) < 2 * MaxPrompts
    /\ \E prompt \in Questions, outs \in ChatLeafOutcomes :
         messages' = chat(messages, prompt, process_query_async(prompt, outs))
    /\ UNCHANGED <<request, state, pc, raised, executed, calls, leaf, response>>
    /\ UNCHANGED <<questions, gathered, batch_response, workers, runs, collection, starts>>

\* a prompt is submitted to app_frontend.py
ChatFrontend ==
    /\ Len(messages) < 2 * MaxPrompts
    /\ \E prompt \in Questions, outs \in ChatLeafOutcomes, transport_ok \in BOOLEAN :
         LET r == process_query_async(prompt, outs)
         IN  messages' = chat_frontend(messages, prompt,
                             query_backend(transport_ok, query(prompt, r, r.state)))
    /\ UNCHANGED <<request, state, pc, raised, executed, calls, leaf, response>>
    /\ UNCHANGED <<questions, gathered, batch_response, workers, runs, collection, starts>>

\* the Clear Chat History button
ClearChat ==
    /\ messages' = <<>>
    /\ UNCHANGED <<request, state, pc, raised, executed, calls, leaf, response>>
    /\ UNCHANGED <<questions, gathered, batch_response, workers, runs, collection, starts>>

ChatNext == Chat \/ ChatFrontend \/ ClearChat

ChatSpec == ChatInit /\ [][ChatNext]_vars

----------------------------------------------------------------------------
(* Properties *)

Ran(node) == \E i \in DOMAIN executed : executed[i] = node

Called(site) == \E i \in DOMAIN calls : calls[i].site = site

\* the leaf capability at site was called and failed / answered
LeafFailed(site) == site \in DOMAIN leaf /\ ~leaf[site].ok

LeafAnswered(site) == site \in DOMAIN leaf /\ leaf[site].ok

\* C1: after the Router has run, route is the weather label when the
\* trimmed, lowercased classifier output is exactly "weather" and the
\* document label "pdf" for every other output; never a third value.
C1_RouteIsWeatherOrPdf ==
    LeafAnswered("router_llm") =>
        IF lower(strip(leaf.router_llm.text)) = weather
        THEN state.route = weather
        ELSE state.route = pdf

\* C2: once the Router has returned, exactly one branch stage runs:
\* WeatherStage if and only if route = "weather", DocumentStage otherwise
\* (also for an unrecognized route); never both; the stage after a branch
\* stage is Generation.
C2_ExactlyOneBranch ==
    /\ ~(Ran("weather") /\ Ran("rag_retrieval"))
    /\ LeafAnswered("router_llm") =>
          /\ (pc = "weather" \/ Ran("weather")) <=> state.route = weather
          /\ (pc = "rag_retrieval" \/ Ran("rag_retrieval")) <=> state.route # weather
    /\ ~LeafAnswered("router_llm") => ~Ran("weather") /\ ~Ran("rag_retrieval")
    /\ \A i \in DOMAIN executed :
          executed[i] \in {"weather", "rag_retrieval"} =>
             /\ i = 2
             /\ i < Len(executed) => executed[i + 1] = "generation"
             /\ i = Len(executed) /\ ~raised.raised => pc = "generation"

C2_Witness ==
    /\ pc = "END"
    /\ Ran("rag_retrieval")
    /\ state.route \notin {weather, pdf}

\* the place of a stage in the fixed order
Rank(node) ==
    CASE node = "router" -> 1
      [] node \in {"weather", "rag_retrieval"} -> 2
      [] node = "generation" -> 3
      [] node = "evaluation" -> 4
      [] OTHER -> 5

\* C3: the stages of one query run in the order Router, one branch stage,
\* Generation, Evaluation, done: the i-th stage that ran is the stage of
\* place i, so none ran twice or out of order, and the stage to run next is
\* the one right after the last that ran.
C3_StageOrder ==
    /\ Len(executed) <= 4
    /\ \A i \in DOMAIN executed : Rank(executed[i]) = i
    /\ IF raised.raised
       THEN Rank(pc) = Len(executed) /\ raised.node = pc
       ELSE Rank(pc) = Len(executed) + 1
    /\ pc = "END" <=> (Len(executed) = 4 /\ ~raised.raised)

C3_Witness ==
    /\ pc = "END"
    /\ executed = <<"router", "weather", "generation", "evaluation">>

\* the language-model call of the Router, of the location extraction or of
\* Generation failed
LLMCallFailed ==
    LeafFailed("router_llm") \/ LeafFailed("location_llm") \/ LeafFailed("generation_llm")

\* C4: whatever the weather fetch, the retrieval, the rerank and the rubric
\* output do, a run in which the language-model calls of Router, location
\* extraction and Generation return reaches the terminal state, all four
\* stages having run.
C4_ReachesDone ==
    ([]~LLMCallFailed) => <>(pc = "END" /\ Len(executed) = 4)

C4_Witness ==
    /\ pc = "END"
    /\ LeafFailed("rerank")
    /\ "error" \in DOMAIN state.evaluation.d
    /\ ~LLMCallFailed

NodeOf(site) ==
    CASE site = "router_llm" -> "router"
      [] site = "location_llm" -> "weather"
      [] site = "generation_llm" -> "generation"

\* C6: a failed language-model call in the Router, in the location
\* extraction or in Generation ends the run as a failure of the query: the
\* exception is raised by that node, nothing runs and no leaf is called
\* after it, the state keeps no result of the node, and no final state is
\* answered; no Evaluation after a Generation failure, no weather fetch
\* after a location-extraction failure.
C6_LLMFailureEndsRun ==
    \A site \in {"router_llm", "location_llm", "generation_llm"} :
        LeafFailed(site) =>
            /\ raised.raised /\ raised.node = NodeOf(site)
            /\ executed[Len(executed)] = NodeOf(site)
            /\ calls[Len(calls)].site = site
            /\ pc = NodeOf(site)
            /\ response.status \in {0, 500}
            /\ site = "generation_llm" =>
                  ~Ran("evaluation") /\ ~Called("evaluation_llm")
                     /\ state.generation = EmptyStr
            /\ site = "location_llm" =>
                  ~Called("weather_fetch") /\ state.context = EmptyStr
            /\ site = "router_llm" => state.route = EmptyStr

C6_Witness ==
    /\ LeafFailed("generation_llm")
    /\ response.status = 500

\* the fetch failed in the claim's sense: no response, a status outside 2xx,
\* a body that is not JSON, or a body missing an expected field
FetchFailed(f) ==
    \/ ~f.get_ok
    \/ f.status < 200 \/ f.status > 299
    \/ ~f.json_ok
    \/ f.body \notin WellFormedBodies

\* C7: when the weather fetch fails in any way, WeatherStage does not
\* raise: weather_data is the empty map, the context begins with
\* "Error fetching weather data: ", the next stage is Generation, and a run
\* that ends has gone through Generation and Evaluation.
C7_FetchFailureDegrades ==
    ("weather_fetch" \in DOMAIN leaf /\ FetchFailed(leaf.weather_fetch)) =>
        /\ raised.node # "weather"
        /\ state.weather_data = EmptyDict
        /\ startswith(state.context, <<"Error fetching weather data: ">>)
        /\ Len(state.context) > 1
        /\ pc \in {"generation", "evaluation", "END"}
        /\ pc = "END" => executed = <<"router", "weather", "generation", "evaluation">>

C7_Witness ==
    /\ "weather_fetch" \in DOMAIN leaf
    /\ leaf.weather_fetch.get_ok /\ leaf.weather_fetch.status = 200
    /\ leaf.weather_fetch.json_ok
    /\ "name" \in DOMAIN leaf.weather_fetch.body
    /\ FetchFailed(leaf.weather_fetch)
    /\ pc = "END"

\* label is in the context, directly followed by the fragments of value
Labelled(ctx, label, value) ==
    \E i \in DOMAIN ctx :
        /\ ctx[i] = label
        /\ i + Len(value) <= Len(ctx)
        /\ SubSeq(ctx, i + 1, i + Len(value)) = value

\* C8: after a well-formed fetch response, the context holds each of the
\* six labels followed by the value of the response it names, and
\* weather_data is the response.
C8_ContextHasResponseValues ==
    ("weather_fetch" \in DOMAIN leaf /\ ~FetchFailed(leaf.weather_fetch)) =>
        LET w == leaf.weather_fetch.body
        IN  /\ state.weather_data = w
            /\ Labelled(state.context, "Location: ", <<w.name, ", ", w.sys.country>>)
            /\ Labelled(state.context, "Temperature: ", <<ToString(w.main.temp)>>)
            /\ Labelled(state.context, "Feels Like: ", <<ToString(w.main.feels_like)>>)
            /\ Labelled(state.context, "Humidity: ", <<ToString(w.main.humidity)>>)
            /\ Labelled(state.context, "Weather: ", <<w.weather[1].description>>)
            /\ Labelled(state.context, "Wind Speed: ", <<ToString(w.wind.speed)>>)

C8_Witness ==
    /\ "weather_fetch" \in DOMAIN leaf
    /\ ~FetchFailed(leaf.weather_fetch)
    /\ leaf.weather_fetch.body.main.temp < 0
    /\ pc = "END"

\* C9 as stated: when the search returns no candidate, the reranker is not
\* invoked and the stage gives no passages, no scores and the empty context.
C9_NoRerankWithoutCandidates ==
    (LeafAnswered("similarity_search") /\ leaf.similarity_search.val = <<>>) =>
        /\ ~Called("rerank")
        /\ state.retrieved_docs = <<>>
        /\ state.rerank_scores = <<>>
        /\ state.context = EmptyStr

\* C10: when the vector store, the search or the reranker raises,
\* DocumentStage does not raise: no passages, no scores, a context that
\* begins with "Error retrieving documents: ", Generation is next, and a run
\* that ends has gone through Generation and Evaluation.
C10_RetrievalFailureDegrades ==
    (LeafFailed("get_vector_store") \/ LeafFailed("similarity_search")
        \/ LeafFailed("rerank")) =>
        /\ raised.node # "rag_retrieval"
        /\ state.retrieved_docs = <<>>
        /\ state.rerank_scores = <<>>
        /\ startswith(state.context, <<"Error retrieving documents: ">>)
        /\ Len(state.context) > 1
        /\ pc \in {"generation", "evaluation", "END"}
        /\ pc = "END" => executed = <<"router", "rag_retrieval", "generation", "evaluation">>

C10_Witness ==
    /\ LeafFailed("rerank")
    /\ Len(leaf.similarity_search.val) >= 2
    /\ pc = "END"

C12_RerankOrderKept ==
    /\ Len(state.retrieved_docs) = Len(state.rerank_scores)
    /\ LeafAnswered("rerank") =>
          LET rs == leaf.rerank.val
              n  == Len(rs)
          IN  /\ Len(state.retrieved_docs) = n
              /\ \A i \in 1..n :
                    /\ state.retrieved_docs[i] = rs[i].text
                    /\ state.rerank_scores[i] = rs[i].relevance_score
              /\ Len(state.context) = (IF n = 0 THEN 0 ELSE 2 * n - 1)
              /\ \A i \in 1..n : state.context[2 * i - 1] = rs[i].text
              /\ \A i \in 1..(n - 1) : state.context[2 * i] = "\n\n"

C12_Witness ==
    /\ LeafAnswered("rerank")
    /\ Len(leaf.rerank.val) = 3
    /\ state.rerank_scores = <<2, 9, 2>>
    /\ state.retrieved_docs[1] = "chunk3"
    /\ pc = "END"

\* the JSON object texts, and the forms the claim gives a text J: bare,
\* in a json fence, in a plain fence, each with whitespace around it or not
ObjectTexts == {J \in DOMAIN JsonTexts : JsonTexts[J].t = "dict"}

Wrappings(J) ==
    LET forms == { J,
                   <<FenceJson, "\n">> \o J \o <<"\n", Fence>>,
                   <<Fence, "\n">> \o J \o <<"\n", Fence>> }
    IN  forms \cup { <<" ">> \o f \o <<"\n">> : f \in forms }

\* C13 as stated: for every JSON object text J, the evaluation is the
\* object J denotes whether the rubric output is J bare, J in a json fence
\* or J in a plain fence.
C13_FencedEqualsBare ==
    LeafAnswered("evaluation_llm") =>
        \A J \in ObjectTexts :
            leaf.evaluation_llm.text \in Wrappings(J) =>
                state.evaluation = JsonTexts[J]

\* C14 as stated: a rubric output that is malformed, is prose, or is JSON
\* lacking one of relevance, accuracy, completeness gives an evaluation
\* with an error field and none of the three scores, and no exception.
C14_ParseFailureGivesError ==
    (LeafAnswered("evaluation_llm")
        /\ \/ ~json_ok(clean(leaf.evaluation_llm.text))
           \/ ~({"relevance", "accuracy", "completeness"}
                   \subseteq DOMAIN json_loads(clean(leaf.evaluation_llm.text)).d)) =>
        /\ raised.node # "evaluation"
        /\ state.evaluation.t = "dict"
        /\ "error" \in DOMAIN state.evaluation.d
        /\ DOMAIN state.evaluation.d \cap {"relevance", "accuracy", "completeness"} = {}

\* C15: once Generation has produced an answer, Evaluation never raises,
\* whatever its language-model call does: its step ends the run at END and
\* leaves question, route, context and answer as they were, and every run
\* in which Generation answered reaches END with that answer.
C15_EvaluationNeverAborts ==
    /\ [](raised.node # "evaluation")
    /\ [][(pc = "evaluation" /\ ~raised.raised) =>
             /\ pc' = "END"
             /\ ~raised'.raised
             /\ state'.question = state.question
             /\ state'.route = state.route
             /\ state'.context = state.context
             /\ state'.generation = state.generation]_vars
    /\ (LeafAnswered("generation_llm") ~>
            (pc = "END" /\ state.generation = leaf.generation_llm.text
                /\ state.question = request /\ "evaluation_llm" \in DOMAIN leaf))

C15_Witness ==
    /\ pc = "END"
    /\ LeafFailed("evaluation_llm")
    /\ state.generation # EmptyStr
    /\ "error" \in DOMAIN state.evaluation.d

\* C16 as stated: in every terminal state the evaluation is a map with
\* exactly the three fields relevance, accuracy, completeness, or a map with
\* the single field error.
C16_EvaluationShape ==
    pc = "END" =>
        /\ state.evaluation.t = "dict"
        /\ \/ DOMAIN state.evaluation.d = {"relevance", "accuracy", "completeness"}
           \/ DOMAIN state.evaluation.d = {"error"}

\* the prompt Generation gave the language model
GenerationPrompt ==
    calls[CHOOSE i \in DOMAIN calls : calls[i].site = "generation_llm"].arg

\* C18: Generation uses the weather template if and only if route is
\* "weather", the document template otherwise, so the template is that of
\* the branch stage that ran; the prompt holds the state's context and then
\* its question, and the text the model returns is stored as the answer.
C18_TemplateFollowsRoute ==
    Called("generation_llm") =>
        LET c   == GenerationPrompt
            ctx == state.context
            q   == state.question
        IN  /\ (c[1] = WeatherSystemPrompt /\ c[2] = "Weather Data:\n")
                  <=> state.route = weather
            /\ (c[1] = DocumentSystemPrompt /\ c[2] = "Context:\n")
                  <=> state.route # weather
            /\ c[1] = WeatherSystemPrompt <=> Ran("weather")
            /\ c[1] = DocumentSystemPrompt <=> Ran("rag_retrieval")
            /\ Len(c) = 4 + Len(ctx) + Len(q)
            /\ SubSeq(c, 3, 2 + Len(ctx)) = ctx
            /\ c[3 + Len(ctx)] = "\n\nQuestion: "
            /\ SubSeq(c, 4 + Len(ctx), 3 + Len(ctx) + Len(q)) = q
            /\ LeafAnswered("generation_llm") =>
                  state.generation = leaf.generation_llm.text

C18_Witness ==
    /\ pc = "END"
    /\ state.route \notin {weather, pdf}
    /\ startswith(state.context, <<"Error retrieving documents: ">>)
    /\ state.generation # EmptyStr
    /\ GenerationPrompt[1] = DocumentSystemPrompt

LLMSites ==
    {"router_llm", "location_llm", "generation_llm", "evaluation_llm"}

\* C19: no call site of a leaf capability is invoked twice in one query and
\* no node runs twice; a weather run makes at most 4 language-model calls
\* and a document run at most 3.
C19_NoRetry ==
    /\ \A i, j \in DOMAIN calls : i # j => calls[i].site # calls[j].site
    /\ \A i, j \in DOMAIN executed : i # j => executed[i] # executed[j]
    /\ Cardinality({i \in DOMAIN calls : calls[i].site \in LLMSites})
          <= (IF Ran("weather") THEN 4 ELSE 3)

C19_Witness ==
    /\ pc = "END"
    /\ "weather_fetch" \in DOMAIN leaf
    /\ FetchFailed(leaf.weather_fetch)
    /\ Cardinality({i \in DOMAIN calls : calls[i].site \in LLMSites}) = 4
    /\ Cardinality({i \in DOMAIN calls : calls[i].site = "weather_fetch"}) = 1

\* C20: route is the empty string until the Router has run; it changes only
\* in the step of the Router, which runs once; every branch stage and
\* Generation run after the Router has written it, and it still holds what
\* the Router wrote.
C20_RouteWrittenOnceByRouter ==
    /\ [](~Ran("router") => state.route = EmptyStr)
    /\ [][state'.route # state.route =>
             /\ pc = "router"
             /\ executed = <<>>
             /\ executed' = <<"router">>]_vars
    /\ [](\A i \in DOMAIN executed :
             executed[i] \in {"weather", "rag_retrieval", "generation", "evaluation"} =>
                /\ i > 1
                /\ executed[1] = "router"
                /\ LeafAnswered("router_llm")
                /\ state.route = lower(strip(leaf.router_llm.text)))

C20_Witness ==
    /\ pc = "END"
    /\ state.route = weather
    /\ leaf.router_llm.text # weather

\* C17 as stated: the batch call never fails; it answers with one result
\* per question, a failed run as the marker (route "error", answer
\* beginning "Error: ") and every other run with the result of that run.
C17_BatchNeverFails ==
    batch_response.status # 0 =>
        /\ batch_response.status = 200
        /\ Len(batch_response.results) = Len(questions)
        /\ \A i \in DOMAIN questions :
             LET item == batch_response.results[i]
             IN  /\ item.question = questions[i]
                 /\ IF gathered[i].raised
                    THEN /\ item.route = error_route
                         /\ startswith(item.answer, <<"Error: ">>)
                    ELSE /\ item.route = gathered[i].state.route
                         /\ item.answer = gathered[i].state.generation
                         /\ item.context = gathered[i].state.context
                         /\ item.evaluation = gathered[i].state.evaluation

\* C21 as stated: weather_data is non-empty only if route is "weather",
\* retrieved_docs and rerank_scores are non-empty only if route is "pdf";
\* on the weather route the passages and scores are empty and on the
\* document route weather_data is empty.
C21_BranchFieldsFollowRoute ==
    /\ state.weather_data # EmptyDict => state.route = weather
    /\ (state.retrieved_docs # <<>> \/ state.rerank_scores # <<>>) => state.route = pdf
    /\ state.route = weather => (state.retrieved_docs = <<>> /\ state.rerank_scores = <<>>)
    /\ state.route = pdf => state.weather_data = EmptyDict

\* C22: under every interleaving of the nodes of concurrent runs, a step
\* of one run leaves the state of every other run as it was, and the result
\* of each finished run (final state or exception) is the result of running
\* its question alone with the leaf answers that run was given.
C22_RunsIndependent ==
    /\ [](\A i \in DOMAIN runs :
            /\ runs[i].state.question = questions[i]
            /\ (runs[i].pc = "END" \/ runs[i].raised) =>
                  LET alone == process_query_async(questions[i], runs[i].outs)
                  IN  /\ alone.raised = runs[i].raised
                      /\ alone.err = runs[i].err
                      /\ alone.state = runs[i].state)
    /\ [][\E i \in DOMAIN runs :
            \A j \in DOMAIN runs : j # i => runs'[j] = runs[j]]_vars

C22_Witness ==
    \E i, j \in DOMAIN runs :
        /\ questions[i] # questions[j]
        /\ runs[i].raised
        /\ runs[j].pc = "END"
        /\ runs[j].state.route = weather
        /\ runs[j].state.generation # EmptyStr

\* the value invoke_graph gives field f
EmptyOf(f) == initial_state(EmptyStr)[f]

\* C23: context is empty until a branch stage has run, generation is empty
\* until Generation has run, evaluation is the empty map until Evaluation
\* has run; and no step makes a non-empty field empty again.
C23_FieldsFilledInOrder ==
    /\ []((~Ran("weather") /\ ~Ran("rag_retrieval")) => state.context = EmptyStr)
    /\ [](~Ran("generation") => state.generation = EmptyStr)
    /\ [](~Ran("evaluation") => state.evaluation = JsonDict(EmptyDict))
    /\ [][\A f \in DOMAIN state :
            state[f] # EmptyOf(f) => state'[f] # EmptyOf(f)]_vars

C23_Witness ==
    /\ pc = "END"
    /\ Ran("weather")
    /\ state.weather_data # EmptyDict
    /\ state.context # EmptyStr
    /\ state.generation # EmptyStr
    /\ state.evaluation # JsonDict(EmptyDict)

\* the fields each stage writes
Writes ==
    [router |-> {"route"},
     weather |-> {"weather_data", "context"},
     rag_retrieval |-> {"retrieved_docs", "rerank_scores", "context"},
     generation |-> {"generation"},
     evaluation |-> {"evaluation"}]

\* C24: a step changes only fields of the stage that ran: Router route;
\* WeatherStage weather_data and context; DocumentStage retrieved_docs,
\* rerank_scores and context; Generation generation; Evaluation evaluation.
\* The question stays the one of the request.
C24_StagesWriteOwnFields ==
    /\ [][\A f \in DOMAIN state :
            state'[f] # state[f] => (pc \in Nodes /\ f \in Writes[pc])]_vars
    /\ [](state.question = request)

C24_Witness ==
    /\ pc = "END"
    /\ LeafFailed("similarity_search")
    /\ LeafFailed("evaluation_llm")
    /\ state.question = request
    /\ state.generation # EmptyStr

\* C25 as stated: the batch endpoint returns exactly one result per
\* submitted question and the i-th result carries the i-th question,
\* whichever runs fail and in whatever order they finish.
C25_OneResultPerQuestion ==
    batch_response.status # 0 =>
        /\ Len(batch_response.results) = Len(questions)
        /\ \A i \in DOMAIN questions :
             batch_response.results[i].question = questions[i]

\* C26: at most 4 runs execute at the same time; a run is never both
\* finished and executing; the batch call answers only after every run has
\* finished or failed; and, every leaf call returning, every submitted run
\* is eventually executed and collected and the batch call completes.
C26_PoolBoundedAndFair ==
    /\ [](Cardinality(workers) <= 4)
    /\ [](\A i \in workers : i \in DOMAIN gathered /\ ~gathered[i].done)
    /\ [](batch_response.status # 0 =>
            (workers = {} /\ \A i \in DOMAIN gathered : gathered[i].done))
    /\ [][\A i \in DOMAIN gathered : gathered[i].done => gathered'[i] = gathered[i]]_vars
    /\ <>(\A i \in DOMAIN gathered : gathered[i].done)
    /\ <>(batch_response.status # 0)

C26_Witness ==
    /\ Len(questions) > 4
    /\ Cardinality(workers) = 4
    /\ \E i \in DOMAIN gathered : Queued(i)
    /\ batch_response.status = 0

\* C27 as stated: a /query response carries exactly the data of the branch
\* that ran: after DocumentStage the retrieved_docs and rerank_scores of
\* the state and no weather_data, after WeatherStage the weather_data of
\* the state and no retrieved_docs or rerank_scores, whatever the Router
\* output was.
C27_ResponseCarriesBranchData ==
    response.status = 200 =>
        /\ Ran("rag_retrieval") =>
              /\ response.body.retrieved_docs = Some(state.retrieved_docs)
              /\ response.body.rerank_scores = Some(state.rerank_scores)
              /\ ~response.body.weather_data.some
        /\ Ran("weather") =>
              /\ response.body.weather_data = Some(state.weather_data)
              /\ ~response.body.retrieved_docs.some
              /\ ~response.body.rerank_scores.some

\* C28: a DocumentStage that runs while the collection is deleted recovers
\* locally (empty passages and scores, context beginning "Error retrieving
\* documents: ", Generation next); with the language-model calls of Router
\* and Generation returning, such a run reaches the terminal state; a
\* weather run never calls the store.
C28_QueriesSurviveReset ==
    /\ [][(pc = "rag_retrieval" /\ ~collection.exists
              /\ executed' = Append(executed, "rag_retrieval")) =>
            /\ ~raised'.raised
            /\ pc' = "generation"
            /\ state'.retrieved_docs = <<>>
            /\ state'.rerank_scores = <<>>
            /\ startswith(state'.context, <<"Error retrieving documents: ">>)
            /\ Len(state'.context) > 1]_vars
    /\ ([]~LLMCallFailed) =>
          ((pc = "rag_retrieval" /\ ~collection.exists) ~> pc = "END")
    /\ [](Ran("weather") =>
            /\ ~Called("get_vector_store")
            /\ ~Called("similarity_search")
            /\ ~Called("rerank"))

C28_Witness ==
    /\ starts >= 1
    /\ ~collection.exists
    /\ pc = "END"
    /\ Ran("rag_retrieval")
    /\ LeafFailed("similarity_search")
    /\ leaf.similarity_search.err = MissingCollection
    /\ state.generation # EmptyStr

\* C29: a call of create_vector_store on a collection that has points
\* leaves it as it is; points are added only by a call that finds the
\* collection missing or empty; so repeated calls keep the point count of
\* the first.
C29_CreateIsIdempotent ==
    /\ [][(starts' = starts + 1 /\ collection.exists /\ collection.points_count > 0)
             => collection' = collection]_vars
    /\ [][collection'.points_count > collection.points_count =>
             /\ starts' = starts + 1
             /\ ~collection.exists \/ collection.points_count = 0
             /\ collection' = Populated]_vars
    /\ [][(starts' = starts + 1 /\ ~collection.exists) => collection'.exists]_vars

C29_Witness ==
    /\ starts >= 2
    /\ collection = [exists |-> TRUE, points_count |-> 1]

\* the content is the error text of a front end (the API front end puts a
\* cross mark before it)
IsErrorText(content) ==
    content # <<>> /\ content[1] \in {"Error: ", "<cross> Error: "}

\* C30: the chat history alternates user and assistant messages; it changes
\* only by a submitted prompt, which appends the user message and exactly
\* one assistant message, or by Clear Chat, which empties it; the
\* assistant message of a failed run is the error text without metadata.
C30_HistoryAlternates ==
    /\ [](\A i \in DOMAIN messages :
            /\ messages[i].role = (IF i % 2 = 1 THEN "user" ELSE "assistant")
            /\ messages[i].role = "assistant" =>
                  (IsErrorText(messages[i].content) <=> ~messages[i].metadata.some))
    /\ [](Len(messages) % 2 = 0)
    /\ [][messages' # messages =>
            \/ messages' = <<>>
            \/ /\ Len(messages') = Len(messages) + 2
               /\ SubSeq(messages', 1, Len(messages)) = messages
               /\ messages'[Len(messages) + 1].role = "user"
               /\ messages'[Len(messages) + 1].content \in Questions
               /\ messages'[Len(messages) + 2].role = "assistant"]_vars

C30_Witness ==
    /\ Len(messages) = 4
    /\ messages[2].content[1] = "Error: "
    /\ ~messages[2].metadata.some
    /\ messages[4].metadata.some
    /\ messages[4].metadata.v.route = pdf

====
